---- MODULE Spec2Model ----
(***************************************************************************)
(* The load-profile pipeline of scripts/cluster_profiles.py: one run of    *)
(* main() over one snapshot of input files.                                *)
(*                                                                         *)
(* A timestamp is the number of minutes since 00:00 of day 0, a Monday     *)
(* (pandas dayofweek 0).  A raw CSV cell that holds a timestamp is         *)
(* <<day, hour, minute>>, or <<>> when it does not parse; a raw numeric    *)
(* cell is <<v>>, or <<>> when it is empty or not a number.  A mean is     *)
(* the exact quotient sum/count, kept as the pair [sum, count].            *)
(***************************************************************************)
EXTENDS Integers, Sequences, FiniteSets, TLC

VARIABLES
    rng,        \* the process-wide numpy random state: the draws made from it
    calls,      \* the household samplings made in this process, in order
    args,       \* the parsed command line (parse_args)
    disk,       \* the rows of the consumption CSV / of the LCL block files
    pc,         \* the position of main()
    loaded,     \* what load_data returned (generic path)
    df,         \* main's / the adapter's current record set
    info,       \* load_lcl_dataset: the household-info table in use
    todo,       \* load_lcl_dataset: block files still to iterate
    frames,     \* load_lcl_dataset: the frames appended so far
    warnings,   \* block files reported missing
    opened,     \* block files that were read
    grouped,    \* compute_profiles: the long-form aggregation
    profiles,   \* the wide table compute_profiles returned
    written,    \* files written under output_dir
    outcome     \* "running", "done", or the error that ended the run

vars == <<rng, calls, args, disk, pc, loaded, df, info, todo, frames, warnings, opened,
          grouped, profiles, written, outcome>>

(* ------------------------------ bounds -------------------------------- *)

\* The most household samplings one process makes.
MaxCalls == 2

\* The most draws other code makes from the process-wide random state.
MaxDraws == 2

\* The most rows an input file holds.
MaxRows == 2

(* ----------------------------- missing values ------------------------- *)

\* A missing text cell (pandas NaN in an object column).
NA == "<NA>"
\* pd.to_datetime(errors="coerce") of an unparseable cell.
NaT == -1
\* A missing / non-numeric consumption value.
NaN == -1

\* Series.astype(str): a missing cell becomes the text "nan".
AsStr(c) == IF c = NA THEN "nan" ELSE c

\* An optional argument is <<>> (None) or <<v>>.
None == <<>>
Given(x) == x # <<>>
\* Python truthiness of an optional int: None and 0 are false.
Truthy(x) == x # <<>> /\ x[1] # 0

Min(a, b) == IF a <= b THEN a ELSE b

(* ------------------------------ time ---------------------------------- *)

MinutesPerDay == 1440

\* pd.to_datetime of a cell, errors="coerce".
ToDatetime(raw) ==
    IF Len(raw) = 3 THEN raw[1] * MinutesPerDay + raw[2] * 60 + raw[3] ELSE NaT

\* pd.to_datetime of a YYYY-MM-DD argument: 00:00 of that day.
DateToDatetime(day) == day * MinutesPerDay

\* numeric parse of a consumption cell (read_csv / pd.to_numeric coerce).
ToNumeric(raw) == IF Len(raw) = 1 THEN raw[1] ELSE NaN

DayOfWeek(ts) == (ts \div MinutesPerDay) % 7
Hour(ts) == (ts % MinutesPerDay) \div 60
Minute(ts) == ts % 60

(* ------------------------------ inputs -------------------------------- *)

Fri == 4
Sat == 5
Sun == 6

\* The household-info table (informations_households.csv): h3 has no
\* value in the cluster column.
InfoTable ==
    << [LCLid |-> "h1", file |-> "block_0", cluster |-> "A"],
       [LCLid |-> "h2", file |-> "block_1", cluster |-> "B"],
       [LCLid |-> "h3", file |-> "block_1", cluster |-> NA] >>

Row(h, c, t, k) ==
    [household_id |-> h, cluster_id |-> c, timestamp |-> t, consumption_kwh |-> k]

\* The rows an input file may hold.
RawRows ==
    { Row("h1", "A", <<Fri, 0, 0>>, <<2>>),      \* weekday, slot 0
      Row("h1", "A", <<Fri, 0, 0>>, <<4>>),
      Row("h1", "A", <<Sun, 0, 0>>, <<0>>),      \* weekend, slot 0; 00:00 after Sat
      Row("h2", "B", <<Sat, 23, 59>>, <<2>>),    \* not half-hour aligned
      Row("h2", "B", <<Sun, 0, 30>>, <<2>>),     \* weekend, slot 1
      Row("h2", "B", <<Fri, 23, 30>>, <<4>>),    \* weekday, slot 47
      Row("h3", NA,  <<Fri, 0, 0>>, <<2>>),      \* no cluster id
      Row("h1", "A", <<>>, <<2>>),               \* unparseable timestamp
      Row("h2", "B", <<Fri, 0, 0>>, <<>>) }      \* missing consumption

SeqsUpTo(S, n) == UNION { [1..k -> S] : k \in 0..n }

ClusterArgs == { {}, {"A"}, {"Z"} }
DateArgs == { <<None, None>>, <<None, <<Sat>> >>, << <<Sat>>, <<Sat>> >> }
SampleArgs == { None, <<0>>, <<1>>, <<2>> }
\* <<consumption_csv, lcl_info_csv, lcl_blocks_dir>> supplied or not.
SourceArgs == { <<TRUE, FALSE, FALSE>>, <<FALSE, TRUE, TRUE>>,
                <<FALSE, FALSE, FALSE>>, <<TRUE, TRUE, TRUE>>,
                <<TRUE, TRUE, FALSE>>, <<FALSE, TRUE, FALSE>> }

(* --------------------------- sequence helpers ------------------------- *)

RECURSIVE DropDuplicates(_)
\* Series.drop_duplicates: the first occurrence of each value, in order.
DropDuplicates(s) ==
    IF s = <<>> THEN <<>>
    ELSE LET front == DropDuplicates(SubSeq(s, 1, Len(s) - 1))
             last == s[Len(s)]
         IN IF \E i \in 1..Len(front) : front[i] = last
            THEN front ELSE Append(front, last)

Range(s) == { s[i] : i \in 1..Len(s) }

\* RandomState(42).permutation(n), the index order sample() draws from.
Permutation42(n) ==
    CASE n = 0 -> <<>>
      [] n = 1 -> <<0>>
      [] n = 2 -> <<1, 0>>
      [] n = 3 -> <<0, 1, 2>>
      [] n = 4 -> <<1, 3, 0, 2>>
      [] n = 5 -> <<1, 4, 2, 0, 3>>

\* Variant of Sample that draws from the process-wide random state
\* (random_state=None): C11 does not hold of it.
SampleGlobalState(s, n) ==
    LET perm == Permutation42(Len(s))
    IN [i \in 1..n |-> s[perm[((i - 1 + rng) % Len(s)) + 1] + 1]]

\* s.sample(n=n, random_state=42): the rows at the first n permuted positions.
Sample(s, n) ==
    LET perm == Permutation42(Len(s))
    IN [i \in 1..n |-> s[perm[i] + 1]]

(* ------------------------------ load_data ----------------------------- *)

\* read_csv and the timestamp parse of load_data.
ParseRow(r) ==
    [household_id |-> r.household_id,
     cluster_id |-> r.cluster_id,
     timestamp |-> ToDatetime(r.timestamp),
     consumption_kwh |-> ToNumeric(r.consumption_kwh)]

DropNaGeneric(r) ==
    /\ r.timestamp # NaT
    /\ r.consumption_kwh # NaN
    /\ r.cluster_id # NA
    /\ r.household_id # NA

load_data(rows) ==
    SelectSeq([i \in 1..Len(rows) |-> ParseRow(rows[i])], DropNaGeneric)

(* ----------------------------- filter_data ---------------------------- *)

\* df[col.astype(str).isin({str(c) for c in clusters})]
InClusters(c, clusters) == AsStr(c) \in { AsStr(x) : x \in clusters }

\* The start-date comparison.
AfterStart(ts, start_date) == ts >= DateToDatetime(start_date)

\* The end-date comparison.
BeforeEnd(ts, end_date) == ts <= DateToDatetime(end_date) + MinutesPerDay

ClusterFilter(d, clusters) ==
    IF clusters # {}
    THEN SelectSeq(d, LAMBDA r : InClusters(r.cluster_id, clusters))
    ELSE d

DateFilter(d, start_date, end_date) ==
    LET d1 == IF Given(start_date)
              THEN SelectSeq(d, LAMBDA r : AfterStart(r.timestamp, start_date[1]))
              ELSE d
    IN IF Given(end_date)
       THEN SelectSeq(d1, LAMBDA r : BeforeEnd(r.timestamp, end_date[1]))
       ELSE d1

\* Whether the household-sampling branch is taken.
SamplingRequested(sample_households) == Truthy(sample_households)

\* The households the sampling branch of filter_data selects.
SampledHouseholds(d, n) ==
    LET households == DropDuplicates([i \in 1..Len(d) |-> d[i].household_id])
    IN Range(Sample(households, Min(n, Len(households))))

SampleFilter(d, sample_households) ==
    IF SamplingRequested(sample_households)
    THEN LET sample == SampledHouseholds(d, sample_households[1])
         IN SelectSeq(d, LAMBDA r : r.household_id \in sample)
    ELSE d

filter_data(d, sample_households, clusters, start_date, end_date) ==
    SampleFilter(DateFilter(ClusterFilter(d, clusters), start_date, end_date),
                 sample_households)

(* -------------------------- add_time_features ------------------------- *)

IsWeekend(ts) == DayOfWeek(ts) >= 5

Slot(ts) == Hour(ts) * 2 + (Minute(ts) \div 30)

\* Variant of HalfHourAligned that keeps every row (the alignment filter left
\* out): C7 does not hold of it.
HalfHourAlignedAny(ts) == Minute(ts) \in 0..59

HalfHourAligned(ts) == Minute(ts) \in {0, 30}

add_time_features(d) ==
    LET aug == [i \in 1..Len(d) |->
                  [household_id |-> d[i].household_id,
                   cluster_id |-> d[i].cluster_id,
                   timestamp |-> d[i].timestamp,
                   consumption_kwh |-> d[i].consumption_kwh,
                   is_weekend |-> IsWeekend(d[i].timestamp),
                   slot |-> Slot(d[i].timestamp)]]
    IN SelectSeq(aug, LAMBDA r : HalfHourAligned(r.timestamp))

(* --------------------------- compute_profiles ------------------------- *)

Key(r) == [cluster_id |-> r.cluster_id, is_weekend |-> r.is_weekend, slot |-> r.slot]

\* groupby(..., dropna=True): a row with a missing key value is in no group.
GroupKeys(d) == { Key(d[i]) : i \in { j \in 1..Len(d) : d[j].cluster_id # NA } }

RECURSIVE GroupSum(_, _)
\* The running sum of a group, accumulated in row order.
GroupSum(d, k) ==
    IF d = <<>> THEN 0
    ELSE GroupSum(Tail(d), k) + (IF Key(Head(d)) = k THEN Head(d).consumption_kwh ELSE 0)

RECURSIVE GroupCount(_, _)
GroupCount(d, k) ==
    IF d = <<>> THEN 0
    ELSE GroupCount(Tail(d), k) + (IF Key(Head(d)) = k THEN 1 ELSE 0)

\* .mean(): the sum of the group's values over their count.
Mean(d, k) == [sum |-> GroupSum(d, k), count |-> GroupCount(d, k)]

\* df.groupby(["cluster_id", "is_weekend", "slot"])["consumption_kwh"].mean()
GroupedMean(d) ==
    { [cluster_id |-> k.cluster_id, is_weekend |-> k.is_weekend, slot |-> k.slot,
       avg_consumption_kwh |-> Mean(d, k)] : k \in GroupKeys(d) }

\* rename(columns={False: "weekday_kwh", True: "weekend_kwh"})
ColumnName(is_weekend) == IF is_weekend THEN "weekend_kwh" ELSE "weekday_kwh"

\* The value columns pivot_table produces: one per is_weekend value observed.
PivotColumns(g) == { ColumnName(p.is_weekend) : p \in g }

\* The cell of a wide row: the long-form value, or <<>> (NaN) when there is none.
PivotCell(g, c, s, w) ==
    LET hit == { p \in g : p.cluster_id = c /\ p.slot = s /\ p.is_weekend = w }
    IN IF hit = {} THEN <<>>
       ELSE <<(CHOOSE p \in hit : TRUE).avg_consumption_kwh>>

\* Variant of PivotTable that fills in the product of the observed clusters
\* and slots (pivot_table(dropna=False)): C9 does not hold of it.
PivotTableCartesian(g) ==
    { [col \in {"cluster_id", "slot"} \cup PivotColumns(g) |->
         CASE col = "cluster_id" -> ix[1]
           [] col = "slot" -> ix[2]
           [] col = "weekday_kwh" -> PivotCell(g, ix[1], ix[2], FALSE)
           [] col = "weekend_kwh" -> PivotCell(g, ix[1], ix[2], TRUE)]
      : ix \in { p.cluster_id : p \in g } \X { p.slot : p \in g } }

\* pivot_table(index=["cluster_id", "slot"], columns="is_weekend").reset_index()
PivotTable(g) ==
    { [col \in {"cluster_id", "slot"} \cup PivotColumns(g) |->
         CASE col = "cluster_id" -> ix[1]
           [] col = "slot" -> ix[2]
           [] col = "weekday_kwh" -> PivotCell(g, ix[1], ix[2], FALSE)
           [] col = "weekend_kwh" -> PivotCell(g, ix[1], ix[2], TRUE)]
      : ix \in { <<p.cluster_id, p.slot>> : p \in g } }

compute_profiles(d) == PivotTable(GroupedMean(d))

(* --------------------------- load_lcl_dataset ------------------------- *)

\* The block files of the dataset, in the sorted order groupby("file") yields.
BlockFiles == <<"block_0", "block_1">>

\* The block file that physically holds a household's rows.
FileOf(h) == InfoTable[CHOOSE i \in 1..Len(InfoTable) : InfoTable[i].LCLid = h].file

\* info[info[cluster_col].astype(str).isin(...)] when clusters are given.
LclClusterFilter(inf, clusters) ==
    IF clusters # {}
    THEN SelectSeq(inf, LAMBDA h : InClusters(h.cluster, clusters))
    ELSE inf

\* info.sample(n=min(sample_households, len(info)), random_state=42)
LclSample(inf, sample_households) ==
    IF SamplingRequested(sample_households)
    THEN Sample(inf, Min(sample_households[1], Len(inf)))
    ELSE inf

\* info.groupby("file")["LCLid"].apply(set): the keys, sorted ...
LclBlocks(inf) ==
    SelectSeq(BlockFiles, LAMBDA b : \E i \in 1..Len(inf) : inf[i].file = b)

\* ... and the household ids of one key.
LclIds(inf, b) == { inf[i].LCLid : i \in { j \in 1..Len(inf) : inf[j].file = b } }

\* pd.read_csv(block_path) and the rename to the canonical column names.
ReadBlock(rows, b) ==
    LET mine == SelectSeq(rows, LAMBDA r : FileOf(r.household_id) = b)
    IN [i \in 1..Len(mine) |->
          [household_id |-> mine[i].household_id,
           timestamp |-> mine[i].timestamp,
           consumption_kwh |-> mine[i].consumption_kwh]]

\* df_block[df_block["household_id"].isin(ids)]
RestrictToIds(block, ids) == SelectSeq(block, LAMBDA r : r.household_id \in ids)

\* dropna(subset=["timestamp", "consumption_kwh"])
DropNaLcl(r) == r.timestamp # NaT /\ r.consumption_kwh # NaN

\* The coercion of the two typed columns and the dropna of a block.
CoerceBlock(block) ==
    SelectSeq([i \in 1..Len(block) |->
                 [household_id |-> block[i].household_id,
                  timestamp |-> ToDatetime(block[i].timestamp),
                  consumption_kwh |-> ToNumeric(block[i].consumption_kwh)]],
              DropNaLcl)

\* The cluster the left join finds for a household (NaN when there is none).
ClusterOf(inf, h) ==
    IF \E i \in 1..Len(inf) : inf[i].LCLid = h
    THEN inf[CHOOSE i \in 1..Len(inf) : inf[i].LCLid = h].cluster
    ELSE NA

\* df_block.merge(info[["LCLid", cluster_col]], on="household_id", how="left")
MergeCluster(block, inf) ==
    [i \in 1..Len(block) |->
       [household_id |-> block[i].household_id,
        cluster_id |-> ClusterOf(inf, block[i].household_id),
        timestamp |-> block[i].timestamp,
        consumption_kwh |-> block[i].consumption_kwh]]

LclAfterStart(ts, start_date) == ts >= DateToDatetime(start_date)

LclBeforeEnd(ts, end_date) == ts <= DateToDatetime(end_date) + MinutesPerDay

\* The per-block date filter.
LclDateFilter(d, start_date, end_date) ==
    LET d1 == IF Given(start_date)
              THEN SelectSeq(d, LAMBDA r : LclAfterStart(r.timestamp, start_date[1]))
              ELSE d
    IN IF Given(end_date)
       THEN SelectSeq(d1, LAMBDA r : LclBeforeEnd(r.timestamp, end_date[1]))
       ELSE d1

\* What one existing block, already restricted to its ids, contributes.
BlockFrame(block, inf, start_date, end_date) ==
    LclDateFilter(MergeCluster(CoerceBlock(block), inf), start_date, end_date)

RECURSIVE Concat(_)
\* pd.concat(frames, ignore_index=True)
Concat(fs) == IF fs = <<>> THEN <<>> ELSE Head(fs).rows \o Concat(Tail(fs))

(* ------------------------------- the run ------------------------------ *)

Init ==
    /\ \E src \in SourceArgs, cl \in ClusterArgs, dt \in DateArgs, n \in SampleArgs :
         args = [consumption_csv |-> src[1], lcl_info_csv |-> src[2],
                 lcl_blocks_dir |-> src[3], clusters |-> cl,
                 start_date |-> dt[1], end_date |-> dt[2], sample_households |-> n]
    /\ disk \in SeqsUpTo(RawRows, MaxRows)
    /\ rng = 0
    /\ calls = <<>>
    /\ pc = "main"
    /\ loaded = <<>>
    /\ df = <<>>
    /\ info = <<>>
    /\ todo = <<>>
    /\ frames = <<>>
    /\ warnings = {}
    /\ opened = {}
    /\ grouped = {}
    /\ profiles = {}
    /\ written = {}
    /\ outcome = "running"

\* raise SystemExit(...) / an uncaught exception: the run ends there.
Fail(error) == pc' = "failed" /\ outcome' = error

\* Variant of SelectSource that goes on to load_data when no source is
\* supplied: C12 does not hold of it.
SelectSourceUnchecked ==
    /\ pc = "main"
    /\ pc' = IF args.lcl_info_csv /\ args.lcl_blocks_dir
             THEN "load_lcl_dataset" ELSE "load_data"
    /\ UNCHANGED <<rng, calls, args, disk, loaded, df, info, todo, frames, warnings,
                   opened, grouped, profiles, written, outcome>>

\* main: the choice of the input source.
SelectSource ==
    /\ pc = "main"
    /\ IF args.lcl_info_csv /\ args.lcl_blocks_dir
       THEN pc' = "load_lcl_dataset" /\ outcome' = outcome
       ELSE IF ~args.consumption_csv
            THEN Fail("Provide --consumption-csv or LCL dataset args.")
            ELSE pc' = "load_data" /\ outcome' = outcome
    /\ UNCHANGED <<rng, calls, args, disk, loaded, df, info, todo, frames, warnings, opened,
                   grouped, profiles, written>>

LoadData ==
    /\ pc = "load_data"
    /\ loaded' = load_data(disk)
    /\ df' = loaded'
    /\ pc' = "filter_data"
    /\ UNCHANGED <<rng, calls, args, disk, info, todo, frames, warnings, opened,
                   grouped, profiles, written, outcome>>

FilterData ==
    /\ pc = "filter_data"
    /\ df' = filter_data(df, args.sample_households, args.clusters,
                         args.start_date, args.end_date)
    /\ pc' = "check_empty"
    /\ UNCHANGED <<rng, calls, args, disk, loaded, info, todo, frames, warnings, opened,
                   grouped, profiles, written, outcome>>

\* load_lcl_dataset up to the block loop.
LclSelectHouseholds ==
    /\ pc = "load_lcl_dataset"
    /\ LET filtered == LclClusterFilter(InfoTable, args.clusters)
           sampled == LclSample(filtered, args.sample_households)
       IN IF filtered = <<>>
          THEN /\ Fail("No households remain after filtering by cluster.")
               /\ info' = filtered
               /\ todo' = todo
          ELSE /\ info' = sampled
               /\ todo' = LclBlocks(sampled)
               /\ pc' = "blocks"
               /\ outcome' = outcome
    /\ UNCHANGED <<rng, calls, args, disk, loaded, df, frames, warnings, opened,
                   grouped, profiles, written>>

\* Variant of LclBlockMissing in which a missing block file ends the run:
\* C5 does not hold of it.
LclBlockMissingFatal ==
    /\ pc = "blocks"
    /\ todo # <<>>
    /\ warnings' = warnings \cup {Head(todo)}
    /\ Fail("FileNotFoundError")
    /\ UNCHANGED <<rng, calls, args, disk, loaded, df, info, todo, frames, opened,
                   grouped, profiles, written>>

\* One turn of the block loop whose block file does not exist.
LclBlockMissing ==
    /\ pc = "blocks"
    /\ todo # <<>>
    /\ warnings' = warnings \cup {Head(todo)}
    /\ todo' = Tail(todo)
    /\ UNCHANGED <<rng, calls, args, disk, pc, loaded, df, info, frames, opened,
                   grouped, profiles, written, outcome>>

\* One turn of the block loop whose block file exists.
LclBlockRead ==
    /\ pc = "blocks"
    /\ todo # <<>>
    /\ LET b == Head(todo)
           block == RestrictToIds(ReadBlock(disk, b), LclIds(info, b))
       IN frames' = IF block = <<>>
                    THEN frames
                    ELSE Append(frames,
                                [file |-> b,
                                 rows |-> BlockFrame(block, info, args.start_date,
                                                     args.end_date)])
    /\ opened' = opened \cup {Head(todo)}
    /\ todo' = Tail(todo)
    /\ UNCHANGED <<rng, calls, args, disk, pc, loaded, df, info, warnings,
                   grouped, profiles, written, outcome>>

\* The end of load_lcl_dataset.
LclConcat ==
    /\ pc = "blocks"
    /\ todo = <<>>
    /\ IF frames = <<>>
       THEN Fail("No data loaded from blocks; check paths and filters.") /\ df' = df
       ELSE df' = Concat(frames) /\ pc' = "check_empty" /\ outcome' = outcome
    /\ UNCHANGED <<rng, calls, args, disk, loaded, info, todo, frames, warnings, opened,
                   grouped, profiles, written>>

\* Variant of CheckEmpty without the emptiness test: C4 does not hold
\* of it.
CheckEmptySkipped ==
    /\ pc = "check_empty"
    /\ pc' = "add_time_features"
    /\ UNCHANGED <<rng, calls, args, disk, loaded, df, info, todo, frames, warnings, opened,
                   grouped, profiles, written, outcome>>

CheckEmpty ==
    /\ pc = "check_empty"
    /\ IF df = <<>>
       THEN Fail("No data after filtering; check inputs.")
       ELSE pc' = "add_time_features" /\ outcome' = outcome
    /\ UNCHANGED <<rng, calls, args, disk, loaded, df, info, todo, frames, warnings, opened,
                   grouped, profiles, written>>

AddTimeFeatures ==
    /\ pc = "add_time_features"
    /\ df' = add_time_features(df)
    /\ pc' = "compute_profiles"
    /\ UNCHANGED <<rng, calls, args, disk, loaded, info, todo, frames, warnings, opened,
                   grouped, profiles, written, outcome>>

ComputeProfiles ==
    /\ pc = "compute_profiles"
    /\ grouped' = GroupedMean(df)
    /\ profiles' = compute_profiles(df)
    /\ pc' = "save_outputs"
    /\ UNCHANGED <<rng, calls, args, disk, loaded, df, info, todo, frames, warnings, opened,
                   written, outcome>>

\* The files save_outputs writes.
ProfileFiles == {"profiles.csv", "profiles.json"}

SaveOutputs ==
    /\ pc = "save_outputs"
    /\ written' = written \cup ProfileFiles
    /\ pc' = "plot_profiles"
    /\ UNCHANGED <<rng, calls, args, disk, loaded, df, info, todo, frames, warnings, opened,
                   grouped, profiles, outcome>>

\* group["weekday_kwh"] / group["weekend_kwh"] of a table without that column.
PlotRaises(table) ==
    \E row \in table : ~ ({"weekday_kwh", "weekend_kwh"} \subseteq DOMAIN row)

PlotProfiles ==
    /\ pc = "plot_profiles"
    /\ IF PlotRaises(profiles)
       THEN Fail("KeyError") /\ written' = written
       ELSE /\ written' = written \cup { row["cluster_id"] : row \in profiles }
            /\ pc' = "done"
            /\ outcome' = "done"
    /\ UNCHANGED <<rng, calls, args, disk, loaded, df, info, todo, frames, warnings, opened,
                   grouped, profiles>>

Next ==
    \/ SelectSource
    \/ LoadData
    \/ FilterData
    \/ LclSelectHouseholds
    \/ LclBlockMissing
    \/ LclBlockRead
    \/ LclConcat
    \/ CheckEmpty
    \/ AddTimeFeatures
    \/ ComputeProfiles
    \/ SaveOutputs
    \/ PlotProfiles

Spec == Init /\ [][Next]_vars

(* ------------------------------ properties ---------------------------- *)

\* The run reads the multi-block (LCL) input.
UsesLcl == args.lcl_info_csv /\ args.lcl_blocks_dir

\* The run reads the generic consumption CSV.
UsesGeneric == ~UsesLcl /\ args.consumption_csv

\* The positions of main after the emptiness check.
AfterCheck == {"add_time_features", "compute_profiles", "save_outputs",
               "plot_profiles", "done"}

\* The date range as specified: from 00:00 of start_date (when given) up to,
\* and not including, 00:00 of the day after end_date.
InDateRange(ts) ==
    /\ Given(args.start_date) => ts >= args.start_date[1] * 1440
    /\ Given(args.end_date) => ts < (args.end_date[1] + 1) * 1440

\* The record's cluster passes the allow-list (no allow-list: every record).
InAllowList(c) == args.clusters = {} \/ AsStr(c) \in args.clusters

\* C1 -- date-range filtering on both paths: with end_date given, exactly the
\* records from start (when given) up to, and not including, 00:00 of the day
\* after end_date are kept; a record at 00:00 of the day after is excluded.
C1_DateRangeEndExclusive ==
    /\ (UsesGeneric /\ pc = "check_empty" /\ Given(args.end_date)) =>
         /\ \A i \in 1..Len(df) : InDateRange(df[i].timestamp)
         /\ ~SamplingRequested(args.sample_households) =>
              \A i \in 1..Len(loaded) :
                 (InAllowList(loaded[i].cluster_id) /\ InDateRange(loaded[i].timestamp))
                    => loaded[i] \in Range(df)
    /\ (UsesLcl /\ Given(args.end_date)) =>
         \A f \in 1..Len(frames) : \A i \in 1..Len(frames[f].rows) :
            InDateRange(frames[f].rows[i].timestamp)

\* The sides (weekday FALSE, weekend TRUE) of (cluster, slot) with a record
\* in the aggregation input.
SidesWithRecords(c, s) ==
    { df[i].is_weekend : i \in { j \in 1..Len(df) :
                                   df[j].cluster_id = c /\ df[j].slot = s } }

\* C2 -- every row of the table compute_profiles returns has both a
\* weekday_kwh and a weekend_kwh field, and the field of a side with no
\* record for that (cluster, slot) is null, never a number.
C2_BothSidesPresent ==
    \A row \in profiles :
       /\ {"weekday_kwh", "weekend_kwh"} \subseteq DOMAIN row
       /\ \A w \in BOOLEAN :
            w \notin SidesWithRecords(row["cluster_id"], row["slot"])
               => row[ColumnName(w)] = <<>>

\* The households of a record set.
HouseholdsOf(d) == { d[i].household_id : i \in 1..Len(d) }

\* The records left by the cluster filter and the date filter of filter_data.
Remaining == DateFilter(ClusterFilter(loaded, args.clusters),
                        args.start_date, args.end_date)

\* C3 -- filter_data with a sample size N supplied keeps exactly the records
\* of min(N, D) distinct households drawn from the D households remaining
\* after the cluster and date filters, for every supplied N.
C3_SampleOfRemaining ==
    (UsesGeneric /\ pc = "check_empty" /\ Given(args.sample_households)) =>
       LET n == args.sample_households[1]
           pool == HouseholdsOf(Remaining)
           kept == HouseholdsOf(df)
       IN /\ Cardinality(kept) = Min(n, Cardinality(pool))
          /\ kept \subseteq pool
          /\ df = SelectSeq(Remaining, LAMBDA r : r.household_id \in kept)

\* C3 for the sample sizes that select the sampling branch (N >= 1).
C3_SampleOfRemainingPositive ==
    (UsesGeneric /\ pc = "check_empty" /\ SamplingRequested(args.sample_households))
       => C3_SampleOfRemaining

\* The cluster ids present in the input, as text.
InputClusters ==
    IF UsesLcl
    THEN { AsStr(InfoTable[i].cluster) : i \in 1..Len(InfoTable) }
    ELSE { AsStr(disk[i].cluster_id) : i \in 1..Len(disk) }

\* The allow-list names no cluster id of the input.
NoClusterMatch == args.clusters # {} /\ args.clusters \cap InputClusters = {}

\* C4 -- a run whose allow-list names no cluster id of the input never gets
\* past the emptiness check (it never reaches add_time_features,
\* compute_profiles or save_outputs and writes nothing), and whenever the
\* record set is empty at the check the run ends there in the fatal
\* "no data after filtering" error.
C4_EmptyIsFatal ==
    [][ /\ NoClusterMatch =>
             /\ pc' \notin AfterCheck
             /\ written' = {}
             /\ pc' = "check_empty" => df' = <<>>
        /\ (pc = "check_empty" /\ df = <<>>) =>
             /\ pc' = "failed"
             /\ outcome' = "No data after filtering; check inputs." ]_vars

C4_Witness ==
    /\ UsesGeneric
    /\ NoClusterMatch
    /\ loaded # <<>>
    /\ pc = "failed"
    /\ outcome = "No data after filtering; check inputs."

\* The block files the selected households refer to.
Referenced == Range(LclBlocks(info))

\* What an existing block contributes: its rows for the selected households.
Contribution(b) ==
    BlockFrame(RestrictToIds(ReadBlock(disk, b), LclIds(info, b)), info,
               args.start_date, args.end_date)

\* C5 -- load_lcl_dataset skips a missing block file with a warning and goes
\* on with the remaining blocks: the records returned are exactly those of
\* the blocks that exist, and the call fails ("no data loaded") exactly when
\* no block contributed a frame.
C5_MissingBlockSkipped ==
    (UsesLcl /\ info # <<>>) =>
       /\ warnings \cap opened = {}
       /\ pc = "blocks" => warnings \cup opened \cup Range(todo) = Referenced
       /\ pc = "failed" =>
            /\ todo = <<>>
            /\ warnings \cup opened = Referenced
            /\ (outcome = "No data loaded from blocks; check paths and filters.")
                  <=> (frames = <<>>)
       /\ pc \in {"check_empty"} \cup AfterCheck =>
            /\ todo = <<>>
            /\ frames # <<>>
            /\ warnings \cup opened = Referenced
       /\ pc = "check_empty" =>
            \A i \in 1..Len(BlockFiles) :
               SelectSeq(df, LAMBDA r : FileOf(r.household_id) = BlockFiles[i])
                  = IF BlockFiles[i] \in opened
                    THEN Contribution(BlockFiles[i]) ELSE <<>>

C5_Witness ==
    /\ UsesLcl
    /\ pc = "check_empty"
    /\ warnings # {}
    /\ opened # {}
    /\ df # <<>>

\* All four canonical fields of a record are present.
Complete(r) ==
    /\ r.household_id # NA
    /\ r.cluster_id # NA
    /\ r.timestamp # NaT
    /\ r.consumption_kwh # NaN

\* C6 -- every record either adapter returns has household_id, cluster_id,
\* timestamp and consumption_kwh present; records lacking one are dropped.
C6_ReturnedRecordsComplete ==
    ((UsesGeneric /\ pc = "filter_data") \/ (UsesLcl /\ pc = "check_empty"))
       => \A i \in 1..Len(df) : Complete(df[i])

\* The canonical fields of an augmented record.
Canonical(r) ==
    [household_id |-> r.household_id, cluster_id |-> r.cluster_id,
     timestamp |-> r.timestamp, consumption_kwh |-> r.consumption_kwh]

\* C7 -- add_time_features passes on exactly the records whose minute is 0 or
\* 30, each with slot = hour*2 + floor(minute/30), a value in 0..47.
C7_HalfHourAligned ==
    [][ pc = "add_time_features" =>
          /\ \A i \in 1..Len(df') :
                LET ts == df'[i].timestamp
                IN /\ ts % 60 \in {0, 30}
                   /\ df'[i].slot = ((ts % 1440) \div 60) * 2 + ((ts % 60) \div 30)
                   /\ df'[i].slot \in 0..47
          /\ [i \in 1..Len(df') |-> Canonical(df'[i])]
                = SelectSeq(df, LAMBDA r : r.timestamp % 60 \in {0, 30}) ]_vars

C7_Witness ==
    /\ UsesGeneric
    /\ pc = "compute_profiles"
    /\ Len(loaded) = 2
    /\ Len(df) = 1
    /\ df[1].slot = 47
    /\ \E i \in 1..Len(loaded) : loaded[i].timestamp % 60 = 59

\* compute_profiles has run.
Computed ==
    pc \in {"save_outputs", "plot_profiles", "done"}
       \/ (pc = "failed" /\ outcome = "KeyError")

RECURSIVE SumOver(_, _)
\* The sum of consumption_kwh over the rows of d at the indices I.
SumOver(I, d) ==
    IF I = {} THEN 0
    ELSE LET i == CHOOSE j \in I : TRUE
         IN d[i].consumption_kwh + SumOver(I \ {i}, d)

\* The reorderings of d.
Reorderings(d) ==
    { [i \in 1..Len(d) |-> d[f[i]]] :
        f \in { g \in [1..Len(d) -> 1..Len(d)] : Range(g) = 1..Len(d) } }

\* C8 -- the long-form aggregation has exactly one ProfilePoint for each
\* (cluster_id, is_weekend, slot) key of an input record, whose value is the
\* sum of the key's consumption_kwh over their count, none for any other
\* key, and is the same for every order of the input records.
C8_AggregationExact ==
    Computed =>
       /\ \A i \in 1..Len(df) :
             Cardinality({ p \in grouped :
                             /\ p.cluster_id = df[i].cluster_id
                             /\ p.is_weekend = df[i].is_weekend
                             /\ p.slot = df[i].slot }) = 1
       /\ \A p \in grouped :
             LET members == { i \in 1..Len(df) :
                                /\ df[i].cluster_id = p.cluster_id
                                /\ df[i].is_weekend = p.is_weekend
                                /\ df[i].slot = p.slot }
             IN /\ members # {}
                /\ p.avg_consumption_kwh =
                      [sum |-> SumOver(members, df), count |-> Cardinality(members)]
       /\ \A d \in Reorderings(df) : GroupedMean(d) = grouped

\* C8 for input records that all carry a cluster id.
C8_AggregationExactWithClusters ==
    (\A i \in 1..Len(df) : df[i].cluster_id # NA) => C8_AggregationExact

\* C9 -- the wide table has exactly one row for each (cluster_id, slot) pair
\* of the long-form aggregation, no row for any other pair, and no two rows
\* with the same pair.
C9_RowsAreObservedPairs ==
    LET pairs == { <<p.cluster_id, p.slot>> : p \in grouped }
    IN /\ { <<row["cluster_id"], row["slot"]>> : row \in profiles } = pairs
       /\ Cardinality(profiles) = Cardinality(pairs)

C9_Witness ==
    /\ Computed
    /\ Cardinality(grouped) = 2
    /\ Cardinality(profiles) = 1

\* C10 -- the profile output exists only if the run completes: a run that
\* ends in an error leaves no profile CSV or JSON written.
C10_NoPartialOutput ==
    pc = "failed" => written \cap ProfileFiles = {}

(* ------------------- repeated sampling in one process ----------------- *)

\* The sample sizes a call passes (those that select the sampling branch).
SampleSizes == { <<1>>, <<2>> }

\* A process that holds both inputs and makes its sampling calls itself.
InitSampling ==
    /\ Init
    /\ args.consumption_csv /\ args.lcl_info_csv /\ args.lcl_blocks_dir
    /\ args.sample_households = None

\* One execution of filter_data on the loaded consumption CSV.
FilterDataCall ==
    /\ Len(calls) < MaxCalls
    /\ \E n \in SampleSizes :
         LET out == filter_data(load_data(disk), n, args.clusters,
                                args.start_date, args.end_date)
         IN calls' = Append(calls, [kind |-> "filter_data", n |-> n, rng |-> rng,
                                    selected |-> HouseholdsOf(out)])
    /\ UNCHANGED <<rng, args, disk, pc, loaded, df, info, todo, frames, warnings,
                   opened, grouped, profiles, written, outcome>>

\* One execution of the household sampling of load_lcl_dataset.
LclSampleCall ==
    /\ Len(calls) < MaxCalls
    /\ LclClusterFilter(InfoTable, args.clusters) # <<>>
    /\ \E n \in SampleSizes :
         LET out == LclSample(LclClusterFilter(InfoTable, args.clusters), n)
         IN calls' = Append(calls, [kind |-> "load_lcl_dataset", n |-> n, rng |-> rng,
                                    selected |-> { out[i].LCLid : i \in 1..Len(out) }])
    /\ UNCHANGED <<rng, args, disk, pc, loaded, df, info, todo, frames, warnings,
                   opened, grouped, profiles, written, outcome>>

\* Other code of the process draws from the process-wide random state.
OtherSampling ==
    /\ rng < MaxDraws
    /\ rng' = rng + 1
    /\ UNCHANGED <<calls, args, disk, pc, loaded, df, info, todo, frames, warnings,
                   opened, grouped, profiles, written, outcome>>

NextSampling == FilterDataCall \/ LclSampleCall \/ OtherSampling

SpecSampling == InitSampling /\ [][NextSampling]_vars

\* C11 -- sampling determinism: two executions of filter_data (or of the
\* household sampling of load_lcl_dataset) on the same input, filters and N
\* select the same set of households, whatever was drawn from the random
\* state of the process in between.
C11_SamplingDeterministic ==
    \A i, j \in 1..Len(calls) :
       (calls[i].kind = calls[j].kind /\ calls[i].n = calls[j].n)
          => calls[i].selected = calls[j].selected

C11_Witness ==
    /\ Len(calls) = 2
    /\ calls[1].kind = "filter_data"
    /\ calls[2].kind = "filter_data"
    /\ calls[1].n = <<1>>
    /\ calls[2].n = <<1>>
    /\ calls[1].rng # calls[2].rng
    /\ Cardinality(HouseholdsOf(load_data(disk))) = 2
    /\ args.clusters = {}
    /\ args.end_date = None
    /\ Cardinality(calls[2].selected) = 1

(* --------------------------- source selection ------------------------ *)

\* The complete LCL pair is supplied.
PairSupplied == args.lcl_info_csv /\ args.lcl_blocks_dir

ConfigError == "Provide --consumption-csv or LCL dataset args."

\* Nothing has been read from the consumption CSV.
GenericUnread == loaded = <<>> /\ pc \notin {"load_data", "filter_data"}

\* Nothing has been read from the LCL info table or block files.
LclUnread ==
    /\ info = <<>> /\ todo = <<>> /\ frames = <<>>
    /\ opened = {} /\ warnings = {}
    /\ pc \notin {"load_lcl_dataset", "blocks"}

\* A run without a source ends in the configuration error with nothing read
\* and nothing written; no run reads both sources.
SourceSafety ==
    /\ (~args.consumption_csv /\ ~PairSupplied) =>
          /\ pc \in {"main", "failed"}
          /\ pc = "failed" => outcome = ConfigError
          /\ GenericUnread /\ LclUnread
          /\ df = <<>> /\ written = {}
    /\ GenericUnread \/ LclUnread

\* C12 as claimed -- a run with neither source ends in the configuration
\* error before anything is read or written, no run reads both sources, and
\* a run proceeds only if exactly one of the two sources is supplied.
C12_ExactlyOneSource ==
    /\ SourceSafety
    /\ (pc # "main" /\ outcome # ConfigError) =>
          (args.consumption_csv # PairSupplied)

\* C12 -- a run with neither source ends in the configuration error before
\* anything is read or written, no run reads both sources, and a run
\* proceeds exactly if at least one source is supplied; with both supplied
\* it reads the LCL pair only.
C12_AtLeastOneSource ==
    /\ SourceSafety
    /\ pc # "main" =>
          ((outcome # ConfigError) <=> (args.consumption_csv \/ PairSupplied))
    /\ PairSupplied => GenericUnread

C12_Witness ==
    /\ args.lcl_info_csv
    /\ ~args.lcl_blocks_dir
    /\ ~args.consumption_csv
    /\ pc = "failed"
    /\ outcome = ConfigError

(* ------------------------- aggregation on no data --------------------- *)

\* C13 -- compute_profiles is never invoked on an empty record set: a run
\* whose surviving records are all dropped by the half-hour alignment filter
\* aborts before aggregation.
C13_AggregatorInputNonEmpty ==
    pc = "compute_profiles" => df # <<>>

====
